---- MODULE Spec2Model ----
(***************************************************************************)
(* Relational operations of src/ops/compare.ts (class CompareOps): the six *)
(* broadcasting entries notEqual, less, equal, lessEqual, greater,         *)
(* greaterEqual and their six Strict variants.                             *)
(*                                                                         *)
(* Every entry is translated statement by statement into a body (a         *)
(* sequence of statements); the actions below execute one statement of the *)
(* frame on top of the call stack.  The helpers the entries import         *)
(* (convertToTensor, assertTypesMatch, assertAndGetBroadcastShape,         *)
(* assertShapesMatch, the engine's runKernel and the Tensor methods the    *)
(* strict entries call) live in other files; they are modelled from their  *)
(* contracts in the design document (sections 4.1 - 4.5 and 6).  The @doc  *)
(* and @operation decorators are defined in other files as well and are    *)
(* left out: the design document gives them no effect on dispatch.         *)
(***************************************************************************)
EXTENDS Integers, Sequences, FiniteSets, TLC

VARIABLES
  a,          \* first operand as supplied by the caller
  b,          \* second operand as supplied by the caller
  heap,       \* the tensors that exist: id (index) -> [shape, dtype, data]
  backendOk,  \* whether the backend kernel succeeds on these operands
  stack,      \* call stack of frames, innermost last
  trace,      \* statements executed by the current / last call, in order
  kernels,    \* kernel requests submitted to the engine by that call
  outcome,    \* how the current / last call ended
  prev,       \* outcome of the call before it (recorded by SpecPair only)
  shapeA,     \* SpecShapes: first shape handed to the shape validators
  shapeB,     \* SpecShapes: second shape
  resolved,   \* SpecShapes: result of assertAndGetBroadcastShape
  matched     \* SpecShapes: result of assertShapesMatch

vars == <<a, b, heap, backendOk, stack, trace, kernels, outcome, prev,
          shapeA, shapeB, resolved, matched>>

callVars == <<a, b, heap, backendOk, stack, trace, kernels, outcome, prev>>
shapeVars == <<shapeA, shapeB, resolved, matched>>

(***************************************************************************)
(* Bounds of the shape universe explored by SpecShapes.                    *)
(***************************************************************************)
MaxRank == 2
MaxDim == 3

Max(x, y) == IF x >= y THEN x ELSE y

RECURSIVE SeqsUpTo(_, _)
SeqsUpTo(S, n) ==
  IF n = 0 THEN {<<>>}
  ELSE LET shorter == SeqsUpTo(S, n - 1)
       IN  shorter \cup {Append(s, x) : s \in {t \in shorter : Len(t) = n - 1}, x \in S}

\* Shapes: ordered sequences of non-negative sizes, most-significant axis first.
Shapes == SeqsUpTo(0..MaxDim, MaxRank)

(***************************************************************************)
(* StrictShapeValidator (util.assertShapesMatch): compares the two shapes  *)
(* rank for rank, size for size.                                           *)
(***************************************************************************)
RECURSIVE arraysEqualFrom(_, _, _)
arraysEqualFrom(n1, n2, i) ==
  IF i > Len(n1) THEN TRUE
  ELSE IF n1[i] # n2[i] THEN FALSE
  ELSE arraysEqualFrom(n1, n2, i + 1)

arraysEqual(n1, n2) ==
  IF Len(n1) # Len(n2) THEN FALSE ELSE arraysEqualFrom(n1, n2, 1)

\* TRUE when the assertion passes, FALSE when it raises ShapeMismatchError.
assertShapesMatch(sA, sB) == arraysEqual(sA, sB)

(***************************************************************************)
(* BroadcastShapeResolver (broadcast_util.assertAndGetBroadcastShape).     *)
(* Axes are visited from the trailing end; a missing axis counts as 1; an  *)
(* axis pair with both sizes > 1 and unequal fails; otherwise the resolved *)
(* size is the larger one and is put in front of the sizes found so far.   *)
(***************************************************************************)
AxisFromEnd(s, i) == IF i < Len(s) THEN s[Len(s) - i] ELSE 1

\* An axis test that also rejects an unequal pair holding a 0.
AxisIncompatible_NotEqualNorOne(x, y) == x # y /\ x # 1 /\ y # 1

AxisIncompatible(x, y) == x > 1 /\ y > 1 /\ x # y

RECURSIVE BroadcastFrom(_, _, _, _)
BroadcastFrom(sA, sB, i, result) ==
  IF i >= Max(Len(sA), Len(sB)) THEN [ok |-> TRUE, shape |-> result]
  ELSE LET x == AxisFromEnd(sA, i)
           y == AxisFromEnd(sB, i)
       IN  IF AxisIncompatible(x, y)
           THEN [ok |-> FALSE, shape |-> <<>>]
           ELSE BroadcastFrom(sA, sB, i + 1, <<Max(x, y)>> \o result)

\* A resolver that aligns the two shapes at their leading axis.
assertAndGetBroadcastShape_LeftAligned(sA, sB) ==
  BroadcastFrom(sA \o [i \in 1..(Max(Len(sA), Len(sB)) - Len(sA)) |-> 1],
                sB \o [i \in 1..(Max(Len(sA), Len(sB)) - Len(sB)) |-> 1], 0, <<>>)

\* [ok |-> TRUE, shape |-> s] or, for ShapeMismatchError, [ok |-> FALSE, ...].
assertAndGetBroadcastShape(sA, sB) == BroadcastFrom(sA, sB, 0, <<>>)

(***************************************************************************)
(* Statements of the entry points.  x and y name the locals ("a" for $a,   *)
(* "b" for $b) a statement reads or writes, in the order the source passes *)
(* them; name is the string or method the source gives.                    *)
(***************************************************************************)
Stmt(op, x, y, name) == [op |-> op, x |-> x, y |-> y, name |-> name]

\* const $x = convertToTensor(x, 'x', functionName)
Convert(x, functionName) == Stmt("convertToTensor", x, x, functionName)
\* assertTypesMatch($x, $y)
TypesMatch(x, y) == Stmt("assertTypesMatch", x, y, "")
\* assertAndGetBroadcastShape($x.shape, $y.shape)
BroadcastShape(x, y) == Stmt("assertAndGetBroadcastShape", x, y, "")
\* return ENV.engine.runKernel(backend => backend.kernel($x, $y), {$x, $y})
RunKernel(kernel, x, y) == Stmt("runKernel", x, y, kernel)
\* assertShapesMatch($x.shape, $y.shape, context)
ShapesMatch(x, y, context) == Stmt("assertShapesMatch", x, y, context)
\* return $x.method($y)
Method(x, method, y) == Stmt("method", x, y, method)

\* notEqual with the broadcast check moved in front of the type check.
notEqual_ShapeCheckFirst ==
  [name |-> "notEqual",
   body |-> << Convert("a", "notEqual"),
               Convert("b", "notEqual"),
               BroadcastShape("a", "b"),
               TypesMatch("a", "b"),
               RunKernel("notEqual", "a", "b") >>]

\* compare.ts 45-53
notEqual ==
  [name |-> "notEqual",
   body |-> << Convert("a", "notEqual"),
               Convert("b", "notEqual"),
               TypesMatch("a", "b"),
               BroadcastShape("a", "b"),
               RunKernel("notEqual", "a", "b") >>]

\* notEqualStrict comparing the shape of $a with itself.
notEqualStrict_SelfCompare ==
  [name |-> "notEqualStrict",
   body |-> << Convert("a", "notEqualStrict"),
               Convert("b", "notEqualStrict"),
               ShapesMatch("a", "a", "Error in notEqualStrict: "),
               Method("a", "notEqual", "b") >>]

\* compare.ts 64-69
notEqualStrict ==
  [name |-> "notEqualStrict",
   body |-> << Convert("a", "notEqualStrict"),
               Convert("b", "notEqualStrict"),
               ShapesMatch("a", "b", "Error in notEqualStrict: "),
               Method("a", "notEqual", "b") >>]

\* compare.ts 88-95
less ==
  [name |-> "less",
   body |-> << Convert("a", "less"),
               Convert("b", "less"),
               TypesMatch("a", "b"),
               BroadcastShape("a", "b"),
               RunKernel("less", "a", "b") >>]

\* compare.ts 106-111
lessStrict ==
  [name |-> "lessStrict",
   body |-> << Convert("a", "lessStrict"),
               Convert("b", "lessStrict"),
               ShapesMatch("a", "b", "Error in lessStrict: "),
               Method("a", "less", "b") >>]

\* compare.ts 131-140
equal ==
  [name |-> "equal",
   body |-> << Convert("a", "equal"),
               Convert("b", "equal"),
               TypesMatch("a", "b"),
               BroadcastShape("a", "b"),
               RunKernel("equal", "a", "b") >>]

\* equalStrict delegating to the method of another relation.
equalStrict_CallsNotEqual ==
  [name |-> "equalStrict",
   body |-> << Convert("a", "equalStrict"),
               Convert("b", "equalStrict"),
               ShapesMatch("a", "b", "Error in equalStrict: "),
               Method("a", "notEqual", "b") >>]

\* compare.ts 143-148
equalStrict ==
  [name |-> "equalStrict",
   body |-> << Convert("a", "equalStrict"),
               Convert("b", "equalStrict"),
               ShapesMatch("a", "b", "Error in equalStrict: "),
               Method("a", "equal", "b") >>]

\* lessEqual submitting its kernel before the broadcast check.
lessEqual_KernelBeforeShapeCheck ==
  [name |-> "lessEqual",
   body |-> << Convert("a", "lessEqual"),
               Convert("b", "lessEqual"),
               TypesMatch("a", "b"),
               RunKernel("lessEqual", "a", "b"),
               BroadcastShape("a", "b") >>]

\* compare.ts 168-177
lessEqual ==
  [name |-> "lessEqual",
   body |-> << Convert("a", "lessEqual"),
               Convert("b", "lessEqual"),
               TypesMatch("a", "b"),
               BroadcastShape("a", "b"),
               RunKernel("lessEqual", "a", "b") >>]

\* compare.ts 180-186
lessEqualStrict ==
  [name |-> "lessEqualStrict",
   body |-> << Convert("a", "lessEqualStrict"),
               Convert("b", "lessEqualStrict"),
               ShapesMatch("a", "b", "Error in lessEqualStrict: "),
               Method("a", "lessEqual", "b") >>]

\* greater handing its operands to the backend in the opposite order.
greater_Swapped ==
  [name |-> "greater",
   body |-> << Convert("a", "greater"),
               Convert("b", "greater"),
               TypesMatch("a", "b"),
               BroadcastShape("a", "b"),
               RunKernel("greater", "b", "a") >>]

\* compare.ts 206-215
greater ==
  [name |-> "greater",
   body |-> << Convert("a", "greater"),
               Convert("b", "greater"),
               TypesMatch("a", "b"),
               BroadcastShape("a", "b"),
               RunKernel("greater", "a", "b") >>]

\* greaterStrict without its strict shape check.
greaterStrict_NoShapeCheck ==
  [name |-> "greaterStrict",
   body |-> << Convert("a", "greaterStrict"),
               Convert("b", "greaterStrict"),
               Method("a", "greater", "b") >>]

\* compare.ts 218-223
greaterStrict ==
  [name |-> "greaterStrict",
   body |-> << Convert("a", "greaterStrict"),
               Convert("b", "greaterStrict"),
               ShapesMatch("a", "b", "Error in greaterStrict: "),
               Method("a", "greater", "b") >>]

\* compare.ts 243-252
greaterEqual ==
  [name |-> "greaterEqual",
   body |-> << Convert("a", "greaterEqual"),
               Convert("b", "greaterEqual"),
               TypesMatch("a", "b"),
               BroadcastShape("a", "b"),
               RunKernel("greaterEqual", "a", "b") >>]

\* greaterEqualStrict submitting the kernel itself instead of delegating.
greaterEqualStrict_OwnKernel ==
  [name |-> "greaterEqualStrict",
   body |-> << Convert("a", "greaterEqualStrict"),
               Convert("b", "greaterEqualStrict"),
               ShapesMatch("a", "b", "Error in greaterEqualStrict: "),
               RunKernel("greaterEqual", "a", "b") >>]

\* compare.ts 255-261
greaterEqualStrict ==
  [name |-> "greaterEqualStrict",
   body |-> << Convert("a", "greaterEqualStrict"),
               Convert("b", "greaterEqualStrict"),
               ShapesMatch("a", "b", "Error in greaterEqualStrict: "),
               Method("a", "greaterEqual", "b") >>]

BroadcastEntries == {notEqual, less, equal, lessEqual, greater, greaterEqual}
StrictEntries == {notEqualStrict, lessStrict, equalStrict, lessEqualStrict,
                  greaterStrict, greaterEqualStrict}
CompareOps == BroadcastEntries \cup StrictEntries

EntryByName(n) == CHOOSE e \in CompareOps : e.name = n

\* Tensor.prototype.<method>(x): the chained method calls the broadcasting op
\* of the same name with (this, x).
TensorMethod(method) == EntryByName(method)

(***************************************************************************)
(* Values.                                                                 *)
(***************************************************************************)
DTypes == {"int32", "bool"}

\* Shapes of the operands handed to the entry points: rank 0, an empty axis,
\* size-1 axes that broadcast, equal shapes and sizes that clash.
CallShapes == {<<>>, <<0>>, <<1>>, <<2>>, <<3>>, <<2, 1>>}

Tensor(shape, dtype, data) == [shape |-> shape, dtype |-> dtype, data |-> data]
NoTensor == Tensor(<<>>, "none", <<>>)

\* What a caller may pass: a Tensor (by reference), a tensor-like literal, or
\* a value that cannot be read as a tensor.
Ref(id) == [kind |-> "tensor", id |-> id]
Like(shape, dtype, data) ==
  [kind |-> "like", shape |-> shape, dtype |-> dtype, data |-> data]
Bad == [kind |-> "bad"]

Error(kind, role, fn, sA, sB) ==
  [kind |-> kind, role |-> role, fn |-> fn, shapeA |-> sA, shapeB |-> sB]
NoError == Error("none", "", "", <<>>, <<>>)

Outcome(entry, status, id, tensor, error) ==
  [entry |-> entry, status |-> status, id |-> id, tensor |-> tensor,
   error |-> error]
NoOutcome == Outcome("", "none", 0, NoTensor, NoError)

Frame(fn, argA, argB) ==
  [fn |-> fn, pc |-> 1, args |-> [a |-> argA, b |-> argB],
   locals |-> [a |-> 0, b |-> 0], ret |-> 0]

(***************************************************************************)
(* OperandCoercer (tensor_util.convertToTensor): a Tensor is returned as   *)
(* it is, a literal becomes a newly allocated Tensor, anything else is an  *)
(* InvalidOperandError naming the role and the operation.                  *)
(***************************************************************************)
convertToTensor(x, argName, functionName, h) ==
  IF x.kind = "tensor"
  THEN [ok |-> TRUE, id |-> x.id, heap |-> h, error |-> NoError]
  ELSE IF x.kind = "like"
  THEN [ok |-> TRUE, id |-> Len(h) + 1,
        heap |-> Append(h, Tensor(x.shape, x.dtype, x.data)),
        error |-> NoError]
  ELSE [ok |-> FALSE, id |-> 0, heap |-> h,
        error |-> Error("InvalidOperandError", argName, functionName, <<>>, <<>>)]

\* TypeConsistencyChecker (tensor_util.assertTypesMatch).
assertTypesMatch(tA, tB) == tA.dtype = tB.dtype

\* Backend kernel reached through the engine: a new bool Tensor of the
\* resolved shape whose contents are the relation applied to (x, y) in order.
BackendKernel(kernel, tA, tB) ==
  Tensor(assertAndGetBroadcastShape(tA.shape, tB.shape).shape, "bool",
         <<kernel>> \o tA.data \o tB.data)

(***************************************************************************)
(* The call machine.                                                       *)
(***************************************************************************)
Idle == stack = <<>>
Top == stack[Len(stack)]
Cur == EntryByName(Top.fn).body[Top.pc]
Running(op) == ~Idle /\ Top.ret = 0 /\ Cur.op = op

OperandIds == {x.id : x \in {v \in {a, b} : v.kind = "tensor"}}

Step(op, arg, ok) == [fn |-> Top.fn, op |-> op, arg |-> arg, ok |-> ok]

SetTop(f) == [stack EXCEPT ![Len(stack)] = f]
Advance(f) == [f EXCEPT !.pc = @ + 1]

\* An exception leaves every frame: no entry catches anything.
Throw(err) ==
  /\ stack' = <<>>
  /\ outcome' = Outcome(outcome.entry, "threw", 0, NoTensor, err)

\* A caller invokes entry e on the operands a and b.
Invoke(e, record) ==
  /\ Idle
  /\ stack' = <<Frame(e.name, a, b)>>
  /\ trace' = <<>>
  /\ kernels' = <<>>
  /\ heap' = SubSeq(heap, 1, Cardinality(OperandIds))
  /\ outcome' = Outcome(e.name, "none", 0, NoTensor, NoError)
  /\ prev' = IF record THEN outcome ELSE prev
  /\ UNCHANGED <<a, b, backendOk, shapeVars>>

DoConvertToTensor ==
  /\ Running("convertToTensor")
  /\ LET r == convertToTensor(Top.args[Cur.x], Cur.x, Cur.name, heap)
     IN  /\ trace' = Append(trace, Step("convertToTensor", Cur.x, r.ok))
         /\ heap' = r.heap
         /\ IF r.ok
            THEN /\ stack' = SetTop(Advance([Top EXCEPT !.locals[Cur.x] = r.id]))
                 /\ UNCHANGED outcome
            ELSE Throw(r.error)
  /\ UNCHANGED <<a, b, backendOk, kernels, prev, shapeVars>>

DoAssertTypesMatch ==
  /\ Running("assertTypesMatch")
  /\ LET ok == assertTypesMatch(heap[Top.locals[Cur.x]], heap[Top.locals[Cur.y]])
     IN  /\ trace' = Append(trace, Step("assertTypesMatch", "", ok))
         /\ IF ok
            THEN /\ stack' = SetTop(Advance(Top))
                 /\ UNCHANGED outcome
            ELSE Throw(Error("TypeMismatchError", "", Top.fn, <<>>, <<>>))
  /\ UNCHANGED <<a, b, heap, backendOk, kernels, prev, shapeVars>>

DoAssertAndGetBroadcastShape ==
  /\ Running("assertAndGetBroadcastShape")
  /\ LET sA == heap[Top.locals[Cur.x]].shape
         sB == heap[Top.locals[Cur.y]].shape
         r == assertAndGetBroadcastShape(sA, sB)
     IN  /\ trace' = Append(trace, Step("assertAndGetBroadcastShape", "", r.ok))
         /\ IF r.ok
            THEN /\ stack' = SetTop(Advance(Top))
                 /\ UNCHANGED outcome
            ELSE Throw(Error("ShapeMismatchError", "", Top.fn, sA, sB))
  /\ UNCHANGED <<a, b, heap, backendOk, kernels, prev, shapeVars>>

DoAssertShapesMatch ==
  /\ Running("assertShapesMatch")
  /\ LET sA == heap[Top.locals[Cur.x]].shape
         sB == heap[Top.locals[Cur.y]].shape
         ok == assertShapesMatch(sA, sB)
     IN  /\ trace' = Append(trace, Step("assertShapesMatch", "", ok))
         /\ IF ok
            THEN /\ stack' = SetTop(Advance(Top))
                 /\ UNCHANGED outcome
            ELSE Throw(Error("ShapeMismatchError", "", Cur.name, sA, sB))
  /\ UNCHANGED <<a, b, heap, backendOk, kernels, prev, shapeVars>>

\* A kernel that writes its result over its first input.
DoRunKernel_InPlace ==
  /\ Running("runKernel")
  /\ LET x == Top.locals[Cur.x]
         y == Top.locals[Cur.y]
     IN  /\ kernels' = Append(kernels, [kind |-> Cur.name, a |-> x, b |-> y])
         /\ trace' = Append(trace, Step("runKernel", Cur.name, backendOk))
         /\ IF backendOk
            THEN /\ heap' = [heap EXCEPT ![x] = BackendKernel(Cur.name, heap[x], heap[y])]
                 /\ stack' = SetTop([Top EXCEPT !.ret = x])
                 /\ UNCHANGED outcome
            ELSE /\ Throw(Error("BackendError", "", Cur.name, <<>>, <<>>))
                 /\ UNCHANGED heap
  /\ UNCHANGED <<a, b, backendOk, prev, shapeVars>>

\* ENV.engine.runKernel: the request reaches the backend; the kernel either
\* returns a new Tensor or fails, and the failure is passed on unchanged.
DoRunKernel ==
  /\ Running("runKernel")
  /\ LET x == Top.locals[Cur.x]
         y == Top.locals[Cur.y]
     IN  /\ kernels' = Append(kernels, [kind |-> Cur.name, a |-> x, b |-> y])
         /\ trace' = Append(trace, Step("runKernel", Cur.name, backendOk))
         /\ IF backendOk
            THEN /\ heap' = Append(heap, BackendKernel(Cur.name, heap[x], heap[y]))
                 /\ stack' = SetTop([Top EXCEPT !.ret = Len(heap) + 1])
                 /\ UNCHANGED outcome
            ELSE /\ Throw(Error("BackendError", "", Cur.name, <<>>, <<>>))
                 /\ UNCHANGED heap
  /\ UNCHANGED <<a, b, backendOk, prev, shapeVars>>

\* return $x.method($y): the Tensor method is entered with (this, x) = ($x, $y).
DoTensorMethod ==
  /\ Running("method")
  /\ trace' = Append(trace, Step("method", Cur.name, TRUE))
  /\ stack' = Append(stack, Frame(TensorMethod(Cur.name).name,
                                  Ref(Top.locals[Cur.x]), Ref(Top.locals[Cur.y])))
  /\ UNCHANGED <<a, b, heap, backendOk, kernels, outcome, prev, shapeVars>>

\* A frame that has its return value hands it to its caller, which returns it
\* in turn (every call in the source is in return position).
Return ==
  /\ ~Idle
  /\ Top.ret # 0
  /\ IF Len(stack) = 1
     THEN /\ stack' = <<>>
          /\ outcome' = Outcome(outcome.entry, "returned", Top.ret,
                                heap[Top.ret], NoError)
     ELSE /\ stack' = [SubSeq(stack, 1, Len(stack) - 1)
                         EXCEPT ![Len(stack) - 1].ret = Top.ret]
          /\ UNCHANGED outcome
  /\ UNCHANGED <<a, b, heap, backendOk, trace, kernels, prev, shapeVars>>

(***************************************************************************)
(* Initial states: the operands a caller may hold.                         *)
(***************************************************************************)
OperandInputs ==
  {Bad} \cup {[kind |-> k, shape |-> s, dtype |-> d] :
                k \in {"tensor", "like"}, s \in CallShapes, d \in DTypes}

InitHeap(da, db) ==
  (IF da.kind = "tensor" THEN <<Tensor(da.shape, da.dtype, <<"dataA">>)>> ELSE <<>>)
  \o (IF db.kind = "tensor" THEN <<Tensor(db.shape, db.dtype, <<"dataB">>)>> ELSE <<>>)

InitOperand(d, id, data) ==
  IF d.kind = "tensor" THEN Ref(id)
  ELSE IF d.kind = "like" THEN Like(d.shape, d.dtype, <<data>>)
  ELSE Bad

InitShapesIdle ==
  /\ shapeA = <<>>
  /\ shapeB = <<>>
  /\ resolved = [done |-> FALSE, ok |-> FALSE, shape |-> <<>>]
  /\ matched = [done |-> FALSE, ok |-> FALSE]

InitCall(As, Bs) ==
  /\ \E da \in As, db \in Bs :
       /\ heap = InitHeap(da, db)
       /\ a = InitOperand(da, 1, "dataA")
       /\ b = InitOperand(db, IF da.kind = "tensor" THEN 2 ELSE 1, "dataB")
  /\ backendOk \in BOOLEAN
  /\ stack = <<>>
  /\ trace = <<>>
  /\ kernels = <<>>
  /\ outcome = NoOutcome
  /\ prev = NoOutcome

Init == InitCall(OperandInputs, OperandInputs) /\ InitShapesIdle

Steps ==
  \/ DoConvertToTensor
  \/ DoAssertTypesMatch
  \/ DoAssertAndGetBroadcastShape
  \/ DoAssertShapesMatch
  \/ DoRunKernel
  \/ DoTensorMethod
  \/ Return

Next ==
  \/ \E e \in CompareOps : Invoke(e, FALSE)
  \/ Steps

Spec == Init /\ [][Next]_vars

(***************************************************************************)
(* SpecPair: the same machine, remembering how the previous call on the    *)
(* same operands ended, so that two entries can be compared.               *)
(***************************************************************************)
PairShapes == {<<>>, <<2>>, <<2, 1>>}
PairInputs == {d \in OperandInputs : d.kind # "bad" /\ d.shape \in PairShapes}

InitPair == InitCall(PairInputs, PairInputs) /\ InitShapesIdle

NextPair ==
  \/ \E e \in CompareOps : Invoke(e, TRUE)
  \/ Steps

SpecPair == InitPair /\ [][NextPair]_vars

(***************************************************************************)
(* SpecShapes: the two shape validators applied to every pair of shapes.   *)
(***************************************************************************)
InitCallIdle ==
  /\ a = Bad
  /\ b = Bad
  /\ heap = <<>>
  /\ backendOk = TRUE
  /\ stack = <<>>
  /\ trace = <<>>
  /\ kernels = <<>>
  /\ outcome = NoOutcome
  /\ prev = NoOutcome

InitShapes ==
  /\ shapeA \in Shapes
  /\ shapeB \in Shapes
  /\ resolved = [done |-> FALSE, ok |-> FALSE, shape |-> <<>>]
  /\ matched = [done |-> FALSE, ok |-> FALSE]
  /\ InitCallIdle

ResolveBroadcast ==
  /\ ~resolved.done
  /\ LET r == assertAndGetBroadcastShape(shapeA, shapeB)
     IN  resolved' = [done |-> TRUE, ok |-> r.ok, shape |-> r.shape]
  /\ UNCHANGED <<shapeA, shapeB, matched, callVars>>

MatchShapes ==
  /\ ~matched.done
  /\ matched' = [done |-> TRUE, ok |-> assertShapesMatch(shapeA, shapeB)]
  /\ UNCHANGED <<shapeA, shapeB, resolved, callVars>>

NextShapes ==
  \/ ResolveBroadcast
  \/ MatchShapes

SpecShapes == InitShapes /\ [][NextShapes]_vars

(***************************************************************************)
(* Vocabulary of the properties.                                           *)
(***************************************************************************)
BroadcastNames ==
  {"notEqual", "less", "equal", "lessEqual", "greater", "greaterEqual"}
StrictNames ==
  {"notEqualStrict", "lessStrict", "equalStrict", "lessEqualStrict",
   "greaterStrict", "greaterEqualStrict"}

\* The relation an entry point is named after.
RelationOf(n) ==
  CASE n \in {"notEqual", "notEqualStrict"} -> "notEqual"
    [] n \in {"less", "lessStrict"} -> "less"
    [] n \in {"equal", "equalStrict"} -> "equal"
    [] n \in {"lessEqual", "lessEqualStrict"} -> "lessEqual"
    [] n \in {"greater", "greaterStrict"} -> "greater"
    [] n \in {"greaterEqual", "greaterEqualStrict"} -> "greaterEqual"
    [] OTHER -> "none"

Finished == Idle /\ outcome.status # "none"
Returned == Finished /\ outcome.status = "returned"
Threw(kind) == Finished /\ outcome.status = "threw" /\ outcome.error.kind = kind

BothCoercible == a.kind # "bad" /\ b.kind # "bad"
\* The tensor an operand is, or is coerced to.
ValueOf(v) ==
  IF v.kind = "tensor" THEN heap[v.id] ELSE Tensor(v.shape, v.dtype, v.data)
TypesDiffer == BothCoercible /\ ValueOf(a).dtype # ValueOf(b).dtype
ShapesDiffer == BothCoercible /\ ValueOf(a).shape # ValueOf(b).shape
ShapesIdentical == BothCoercible /\ ValueOf(a).shape = ValueOf(b).shape

\* Right-aligned view of a shape at rank n: left-padded with 1s.
PadLeft(s, n) == [i \in 1..n |-> IF i <= n - Len(s) THEN 1 ELSE s[i - (n - Len(s))]]
RankOf(s1, s2) == Max(Len(s1), Len(s2))
AxisPairs(s1, s2) ==
  {<<PadLeft(s1, RankOf(s1, s2))[i], PadLeft(s2, RankOf(s1, s2))[i]>> :
     i \in 1..RankOf(s1, s2)}
\* "compatible if they are equal, or if either is 1"
EqualOrOne(p) == p[1] = p[2] \/ p[1] = 1 \/ p[2] = 1
\* "both sizes > 1 and unequal"
BothGreaterOneUnequal(p) == p[1] > 1 /\ p[2] > 1 /\ p[1] # p[2]
TrailingCompatible(s1, s2) == \A p \in AxisPairs(s1, s2) : EqualOrOne(p)
Rejected(s1, s2) == \E p \in AxisPairs(s1, s2) : BothGreaterOneUnequal(p)
BroadcastRejected == BothCoercible /\ Rejected(ValueOf(a).shape, ValueOf(b).shape)

TraceOps == [i \in 1..Len(trace) |-> <<trace[i].fn, trace[i].op, trace[i].arg>>]
IsPrefix(s, t) == Len(s) <= Len(t) /\ \A i \in 1..Len(s) : s[i] = t[i]
\* Every statement but the last one executed has succeeded.
FailFast == \A i \in 1..Len(trace) : i < Len(trace) => trace[i].ok

\* The statement order of broadcasting entry n.
DispatchOrder(n) ==
  << <<n, "convertToTensor", "a">>, <<n, "convertToTensor", "b">>,
     <<n, "assertTypesMatch", "">>, <<n, "assertAndGetBroadcastShape", "">>,
     <<n, "runKernel", n>> >>
\* The statement order of strict entry n.
StrictOrder(n) ==
  << <<n, "convertToTensor", "a">>, <<n, "convertToTensor", "b">>,
     <<n, "assertShapesMatch", "">>, <<n, "method", RelationOf(n)>> >>
  \o DispatchOrder(RelationOf(n))

(***************************************************************************)
(* C1 (as stated): in every one of the twelve entries, a call whose        *)
(* operands differ both in element type and in shape (shapes that are not  *)
(* identical and do not broadcast either) fails with TypeMismatchError.    *)
(* The strict entries refute it.                                           *)
(***************************************************************************)
C1_TypeErrorFirstEverywhere ==
  (Finished /\ TypesDiffer /\ ShapesDiffer /\ BroadcastRejected) =>
    Threw("TypeMismatchError")

(***************************************************************************)
(* C1 (amended): a broadcasting entry given operands of different element  *)
(* types fails with TypeMismatchError whatever the shapes are; a strict    *)
(* entry given operands of different element types fails with              *)
(* TypeMismatchError when the shapes are identical and with the            *)
(* ShapeMismatchError of its own strict shape check when they are not.     *)
(***************************************************************************)
C1_TypeErrorFirstInBroadcasting ==
  (Finished /\ TypesDiffer) =>
    IF outcome.entry \in BroadcastNames \/ ShapesIdentical
    THEN Threw("TypeMismatchError")
    ELSE /\ Threw("ShapeMismatchError")
         /\ outcome.error.fn = "Error in " \o outcome.entry \o ": "

C1_Witness ==
  /\ outcome.entry \in BroadcastNames
  /\ TypesDiffer
  /\ BroadcastRejected
  /\ Threw("TypeMismatchError")

(***************************************************************************)
(* C2: a strict entry whose coerced operand shapes differ never submits a  *)
(* kernel, and ends with ShapeMismatchError, also when the shapes would    *)
(* broadcast.                                                              *)
(***************************************************************************)
C2_StrictMismatchNeverReachesBackend ==
  (outcome.entry \in StrictNames /\ ShapesDiffer) =>
    /\ kernels = <<>>
    /\ Finished => /\ Threw("ShapeMismatchError")
                   /\ outcome.error.shapeA = ValueOf(a).shape
                   /\ outcome.error.shapeB = ValueOf(b).shape

C2_Witness ==
  /\ outcome.entry \in StrictNames
  /\ ShapesDiffer
  /\ TrailingCompatible(ValueOf(a).shape, ValueOf(b).shape)
  /\ Threw("ShapeMismatchError")
  /\ kernels = <<>>

(***************************************************************************)
(* C3: on operands of identical shape the broadcasting entry and the       *)
(* strict entry of a relation end the same way: the same result tensor     *)
(* (the relation's kernel applied to the same operands in the same order)  *)
(* or the same kind of error.  Checked under SpecPair on two consecutive   *)
(* calls, one of each variant, on the same operands.                       *)
(***************************************************************************)
C3_StrictAgreesWithBroadcasting ==
  (/\ Finished
   /\ prev.status # "none"
   /\ ShapesIdentical
   /\ RelationOf(prev.entry) = RelationOf(outcome.entry)) =>
    /\ outcome.status = prev.status
    /\ outcome.tensor = prev.tensor
    /\ outcome.error.kind = prev.error.kind

C3_Witness ==
  /\ Returned
  /\ ShapesIdentical
  /\ prev.entry = "greaterEqual"
  /\ outcome.entry = "greaterEqualStrict"
  /\ prev.status = "returned"
  /\ outcome.tensor.data = <<"greaterEqual", "dataA", "dataB">>

(***************************************************************************)
(* C4: for every pair of shapes compatible under right-aligned             *)
(* broadcasting (each aligned pair of sizes equal, or one of them 1, the   *)
(* shorter shape padded on the left with 1s), the resolver succeeds and    *)
(* returns a shape of rank max(rank, rank) whose size on every axis is the *)
(* larger of the two aligned sizes; sizes of 0 included.                   *)
(***************************************************************************)
C4_ResolvesToPairwiseMax ==
  (resolved.done /\ TrailingCompatible(shapeA, shapeB)) =>
    /\ resolved.ok
    /\ Len(resolved.shape) = RankOf(shapeA, shapeB)
    /\ \A i \in 1..RankOf(shapeA, shapeB) :
         resolved.shape[i] = Max(PadLeft(shapeA, RankOf(shapeA, shapeB))[i],
                                 PadLeft(shapeB, RankOf(shapeA, shapeB))[i])

C4_Witness ==
  /\ resolved.done
  /\ shapeA = <<2, 1>>
  /\ shapeB = <<1>>
  /\ resolved.ok
  /\ resolved.shape = <<2, 1>>

(***************************************************************************)
(* C5 (as stated): the resolver fails exactly when some aligned pair of    *)
(* sizes is neither equal nor contains a 1, and those are exactly the      *)
(* pairs of shapes with an aligned pair of sizes both > 1 and unequal,     *)
(* sizes of 0 included.  A size of 0 against a size of 2 refutes it.       *)
(***************************************************************************)
C5_FailsIffNotEqualNorOne ==
  resolved.done =>
    /\ ~resolved.ok <=> ~TrailingCompatible(shapeA, shapeB)
    /\ ~TrailingCompatible(shapeA, shapeB) <=> Rejected(shapeA, shapeB)

(***************************************************************************)
(* C5 (amended): the resolver fails exactly when some aligned pair of      *)
(* sizes has both sizes > 1 and unequal; when no size is 0 these are the   *)
(* pairs of shapes with an aligned pair that is neither equal nor contains *)
(* a 1.                                                                    *)
(***************************************************************************)
C5_FailsIffBothGreaterOneUnequal ==
  resolved.done =>
    /\ ~resolved.ok <=> Rejected(shapeA, shapeB)
    /\ (\A p \in AxisPairs(shapeA, shapeB) : p[1] >= 1 /\ p[2] >= 1) =>
         (~resolved.ok <=> ~TrailingCompatible(shapeA, shapeB))

C5_Witness ==
  /\ resolved.done
  /\ shapeA = <<2, 3>>
  /\ shapeB = <<2>>
  /\ ~resolved.ok

(***************************************************************************)
(* C6: assertShapesMatch passes on two shapes exactly when they are the    *)
(* same shape (the rank-0 shape included), so a strict entry gets past its *)
(* shape check exactly when the two coerced shapes are identical.          *)
(***************************************************************************)
AssertShapesMatchExact ==
  \A s1, s2 \in Shapes : assertShapesMatch(s1, s2) <=> s1 = s2

C6_StrictCheckPassesIffIdentical ==
  /\ AssertShapesMatchExact
  /\ \A i \in 1..Len(trace) :
       (trace[i].op = "assertShapesMatch" /\ outcome.entry \in StrictNames) =>
         /\ BothCoercible
         /\ trace[i].ok <=> ShapesIdentical
         /\ (~trace[i].ok /\ Finished) => Threw("ShapeMismatchError")

C6_Witness ==
  /\ outcome.entry \in StrictNames
  /\ BothCoercible
  /\ ValueOf(a).shape = <<>>
  /\ ValueOf(b).shape = <<>>
  /\ \E i \in 1..Len(trace) : trace[i].op = "assertShapesMatch" /\ trace[i].ok

(***************************************************************************)
(* C7: a broadcasting entry executes coerce a, coerce b, type check,       *)
(* broadcast resolution, kernel submission, in that order and each only    *)
(* after the ones before it succeeded; it submits at most one kernel, and  *)
(* none when an operand is not coercible, the element types differ or the  *)
(* resolver rejects the shapes.                                            *)
(***************************************************************************)
C7_BroadcastingOrder ==
  outcome.entry \in BroadcastNames =>
    /\ IsPrefix(TraceOps, DispatchOrder(outcome.entry))
    /\ FailFast
    /\ Len(kernels) <= 1
    /\ kernels # <<>> => (Len(trace) = 5 /\ \A i \in 1..4 : trace[i].ok)
    /\ (~BothCoercible \/ TypesDiffer \/ BroadcastRejected) => kernels = <<>>
    /\ Finished => \/ Returned /\ Len(kernels) = 1
                   \/ Threw("BackendError") /\ Len(kernels) = 1
                   \/ outcome.status = "threw" /\ kernels = <<>>

C7_Witness ==
  /\ outcome.entry \in BroadcastNames
  /\ Returned
  /\ Len(kernels) = 1
  /\ TraceOps = DispatchOrder(outcome.entry)

(***************************************************************************)
(* C8: every call ends either with a result tensor that did not exist      *)
(* before the call or with one of the four kinds of error, and no step of  *)
(* any call changes the operands: the values the caller holds and the      *)
(* shape, element type and contents of the operand tensors stay the same.  *)
(***************************************************************************)
ErrorKinds ==
  {"InvalidOperandError", "TypeMismatchError", "ShapeMismatchError", "BackendError"}

ResultOrError ==
  Finished =>
    \/ /\ outcome.status = "returned"
       /\ outcome.error = NoError
       /\ outcome.id \in 1..Len(heap)
       /\ outcome.id \notin OperandIds
       /\ \A i \in 1..Len(kernels) : outcome.id \notin {kernels[i].a, kernels[i].b}
       /\ outcome.tensor = heap[outcome.id]
    \/ /\ outcome.status = "threw"
       /\ outcome.error.kind \in ErrorKinds
       /\ outcome.id = 0
       /\ outcome.tensor = NoTensor

OperandsKept ==
  /\ a' = a
  /\ b' = b
  /\ \A id \in OperandIds : id \in 1..Len(heap') /\ heap'[id] = heap[id]

C8_ResultOrErrorOperandsKept == [](ResultOrError) /\ [][OperandsKept]_vars

C8_Witness ==
  /\ Returned
  /\ a.kind = "tensor"
  /\ b.kind = "tensor"
  /\ outcome.id = 3
  /\ heap[1].data = <<"dataA">>
  /\ heap[2].data = <<"dataB">>

(***************************************************************************)
(* C9: a call that returns has submitted exactly one kernel request, of    *)
(* the relation its entry is named after, with the (coerced) first operand *)
(* as a and the second as b.                                               *)
(***************************************************************************)
C9_OneKernelOfOwnRelation ==
  Returned =>
    /\ Len(kernels) = 1
    /\ kernels[1].kind = RelationOf(outcome.entry)
    /\ heap[kernels[1].a] = ValueOf(a)
    /\ heap[kernels[1].b] = ValueOf(b)
    /\ a.kind = "tensor" => kernels[1].a = a.id
    /\ b.kind = "tensor" => kernels[1].b = b.id

C9_Witness ==
  /\ Returned
  /\ outcome.entry = "lessEqualStrict"
  /\ kernels = <<[kind |-> "lessEqual", a |-> 1, b |-> 2]>>
  /\ a = Ref(1)
  /\ b = Ref(2)

(***************************************************************************)
(* C10: a strict entry executes coerce a, coerce b, strict shape check and *)
(* only then the broadcasting entry of its relation (coerce, coerce, type  *)
(* check, broadcast check, kernel).  With identical shapes and different   *)
(* element types it ends with TypeMismatchError and no kernel; with        *)
(* identical shapes and element types it never ends with                   *)
(* ShapeMismatchError.                                                     *)
(***************************************************************************)
C10_StrictOrder ==
  outcome.entry \in StrictNames =>
    /\ IsPrefix(TraceOps, StrictOrder(outcome.entry))
    /\ FailFast
    /\ (ShapesIdentical /\ TypesDiffer) =>
         /\ kernels = <<>>
         /\ Finished => Threw("TypeMismatchError")
    /\ (ShapesIdentical /\ ~TypesDiffer /\ Finished) =>
         (Returned \/ Threw("BackendError"))

C10_Witness ==
  /\ outcome.entry \in StrictNames
  /\ ShapesIdentical
  /\ TypesDiffer
  /\ Threw("TypeMismatchError")
  /\ Len(trace) = 7
  /\ kernels = <<>>

====
